---- MODULE Spec2Model ----
(***************************************************************************)
(* Model of examples/client.py: the coroutine hello(host, port, hash) run  *)
(* under asyncio.run(asyncio.wait_for(hello(...), timeout=5)).             *)
(*                                                                         *)
(* Strings that the program transforms (the hash) are sequences of Unicode *)
(* code points; byte strings are sequences of 0..255.  The 13 MB array is  *)
(* represented by its shape, its dtype and its leading NSample elements;   *)
(* a binary message by its leading bytes and its total byte length.        *)
(***************************************************************************)
EXTENDS Integers, Sequences, FiniteSets, TLC

(***************************************************************************)
(* Bounds of the model.                                                    *)
(***************************************************************************)
MaxHashLen == 2
NSample == 1

(***************************************************************************)
(* Program constants.                                                      *)
(***************************************************************************)
TIMEOUT == 5
Low == 0
High == 2048
DefaultPort == 8765

DefaultHost == "localhost"
\* "dev"
DefaultHash == <<100, 101, 118>>
\* Variant: the close carries no reason.
CloseReasonEmpty == ""
CloseReason == "Goodbye!"
Shape == <<25, 1, 512, 512, 1>>
Dtype == "uint16"

\* Code points a --hash value is built from: 'd', '"', U+00E9, U+20AC,
\* U+1F600, and U+DC80 (a lone surrogate, which is what argv yields for an
\* undecodable byte).
HashChars == {100, 34, 233, 8364, 128512, 56448}
\* Candidate element values around the edges of the ranges involved.
ProbeValues == {0, 256, 2047, 2048, 65536}

RECURSIVE SeqsUpTo(_, _)
SeqsUpTo(S, n) ==
  IF n = 0 THEN {<<>>}
  ELSE LET shorter == SeqsUpTo(S, n - 1)
       IN shorter \cup {Append(s, c) : s \in {t \in shorter : Len(t) = n - 1}, c \in S}

Hashes == {DefaultHash} \cup SeqsUpTo(HashChars, MaxHashLen)

(***************************************************************************)
(* str.encode("utf-8")                                                     *)
(***************************************************************************)
IsSurrogate(cp) == cp >= 55296 /\ cp <= 57343

Utf8Char(cp) ==
  IF cp < 128 THEN <<cp>>
  ELSE IF cp < 2048 THEN <<192 + (cp \div 64), 128 + (cp % 64)>>
  ELSE IF cp < 65536 THEN
    <<224 + (cp \div 4096), 128 + ((cp \div 64) % 64), 128 + (cp % 64)>>
  ELSE <<240 + (cp \div 262144), 128 + ((cp \div 4096) % 64),
         128 + ((cp \div 64) % 64), 128 + (cp % 64)>>

RECURSIVE Utf8Bytes(_)
Utf8Bytes(s) == IF s = <<>> THEN <<>> ELSE Utf8Char(Head(s)) \o Utf8Bytes(Tail(s))

\* hash.encode("utf-8"): raises UnicodeEncodeError on a surrogate.
Encodable(s) == \A i \in 1..Len(s) : ~IsSurrogate(s[i])
StrEncode(s) == Utf8Bytes(s)

(***************************************************************************)
(* json.dumps of a str (ensure_ascii=True)                                  *)
(***************************************************************************)
HexChar(d) == IF d < 10 THEN 48 + d ELSE 87 + d

\* \uXXXX
UEscape(n) ==
  <<92, 117, HexChar(n \div 4096), HexChar((n \div 256) % 16),
    HexChar((n \div 16) % 16), HexChar(n % 16)>>

\* Variant: a character outside the BMP is escaped as one \uXXXX, without a
\* surrogate pair.
JsonEscapeCharBmp(cp) ==
  IF cp = 34 THEN <<92, 34>>
  ELSE IF cp = 92 THEN <<92, 92>>
  ELSE IF cp >= 32 /\ cp <= 126 THEN <<cp>>
  ELSE UEscape(cp % 65536)

JsonEscapeChar(cp) ==
  IF cp = 34 THEN <<92, 34>>
  ELSE IF cp = 92 THEN <<92, 92>>
  ELSE IF cp = 10 THEN <<92, 110>>
  ELSE IF cp = 13 THEN <<92, 114>>
  ELSE IF cp = 9 THEN <<92, 116>>
  ELSE IF cp = 8 THEN <<92, 98>>
  ELSE IF cp = 12 THEN <<92, 102>>
  ELSE IF cp >= 32 /\ cp <= 126 THEN <<cp>>
  ELSE IF cp < 65536 THEN UEscape(cp)
  ELSE LET n == cp - 65536
       IN UEscape(55296 + ((n \div 1024) % 1024)) \o UEscape(56320 + (n % 1024))

RECURSIVE JsonEscape(_)
JsonEscape(s) ==
  IF s = <<>> THEN <<>> ELSE JsonEscapeChar(Head(s)) \o JsonEscape(Tail(s))

\* The JSON text of a str: the escaped characters between double quotes.
JsonDumpsStr(s) == <<34>> \o JsonEscape(s) \o <<34>>

\* json.dumps({"shape": arr.shape, "dtype": arr.dtype.name, "hash": hash}):
\* the tuple becomes a JSON array, the two strings JSON strings.
JsonDumps(shape, dtype, hash) ==
  [shape |-> shape, dtype |-> dtype, hash |-> JsonDumpsStr(hash)]

NoHeader == [shape |-> <<>>, dtype |-> "", hash |-> <<>>]

(***************************************************************************)
(* numpy: randint, shape, dtype, tobytes                                   *)
(***************************************************************************)
\* Variant: the closed range [low, high], as random.randint draws from.
RandIntValuesInclusive(low, high) == {v \in ProbeValues : low <= v /\ v <= high}

\* np.random.randint(low, high, ...): values in the half-open [low, high).
RandIntValues(low, high) == {v \in ProbeValues : low <= v /\ v < high}

RECURSIVE Product(_)
Product(s) == IF s = <<>> THEN 1 ELSE Head(s) * Product(Tail(s))

ItemSize(dtype) ==
  IF dtype = "uint8" THEN 1
  ELSE IF dtype = "uint16" THEN 2
  ELSE IF dtype = "uint32" THEN 4
  ELSE 8

NoArr == [shape |-> <<>>, dtype |-> "", elems |-> <<>>]

\* arr = np.random.randint(0, 2048, (25, 1, 512, 512, 1), dtype=np.uint16)
NewArrays ==
  {[shape |-> Shape, dtype |-> Dtype, elems |-> e] :
     e \in [1..NSample -> RandIntValues(Low, High)]}

\* Variant: the dtype's array-protocol string instead of its name.
ArrDtypeNameStr(a) == "<u2"
\* Variant: the number of elements instead of the number of bytes.
ArrNBytesSize(a) == Product(a.shape)

ArrShape(a) == a.shape
ArrDtypeName(a) == a.dtype
ArrNBytes(a) == Product(a.shape) * ItemSize(a.dtype)

\* Little-endian bytes of the leading elements of the buffer.
RECURSIVE ElemBytes(_)
ElemBytes(es) ==
  IF es = <<>> THEN <<>>
  ELSE <<Head(es) % 256, (Head(es) \div 256) % 256>> \o ElemBytes(Tail(es))

\* arr.tobytes(): the leading bytes and the length of the buffer.
ToBytes(a) == [head |-> ElemBytes(a.elems), len |-> ArrNBytes(a)]

(***************************************************************************)
(* Messages handed to websocket.send                                       *)
(***************************************************************************)
NoMsg == [type |-> "none", json |-> NoHeader, head |-> <<>>, len |-> 0]
TextMsg(j) == [type |-> "text", json |-> j, head |-> <<>>, len |-> 0]

\* hash.encode("utf-8") + arr.tobytes()
PayloadMsg(hash, a) ==
  [type |-> "binary", json |-> NoHeader,
   head |-> StrEncode(hash) \o ToBytes(a).head,
   len |-> Len(StrEncode(hash)) + ToBytes(a).len]

\* uri = f"ws://{host}:{port}/ws"
Uri(host, port) == "ws://" \o host \o ":" \o ToString(port) \o "/ws"

(***************************************************************************)
(* State                                                                   *)
(***************************************************************************)
VARIABLES
  args,        \* the parsed command line: host, port, hash
  endpoint,    \* how the peer at (host, port) behaves
  clock,       \* seconds since asyncio.wait_for armed its timer
  timerFired,  \* the wait_for timer has fired and cancelled the task
  cancelledAt, \* the await at which CancelledError was delivered
  pc,          \* position of the task running hello()
  uri,         \* hello's local uri
  conn,        \* the connection: none, open, closing, closed
  closeReason, \* reason of the close frame this side sent
  arr,         \* hello's local arr
  msg,         \* hello's local msg
  inflight,    \* the message of the send the task is suspended in
  sent,        \* the messages whose send completed, in order
  exc,         \* the exception propagating in the task
  events,      \* connection events so far, in order
  outcome,     \* running, completed, raised
  failure      \* the exception asyncio.run raised

vars == <<args, endpoint, clock, timerFired, cancelledAt, pc, uri, conn,
          closeReason, arr, msg, inflight, sent, exc, events, outcome, failure>>

\* accepting: the connect and both sends succeed.  refusing: the connect
\* fails.  silent: the connect never completes.  flaky: the connect succeeds,
\* a send may fail with ConnectionClosed.
Endpoints == {"accepting", "refusing", "silent", "flaky"}

\* Variant: the task also yields to the event loop after generating the array.
SuspendedWithGenerate ==
  {"connecting", "generate", "send_header", "send_payload", "close", "aexit"}

\* The awaits of hello(): the connect (__aenter__), the two sends, the
\* explicit close, and the close awaited by __aexit__.
Suspended == {"connecting", "send_header", "send_payload", "close", "aexit"}

\* argparse defaults for --host and --port; --hash is any str.
Init ==
  /\ args \in [host : {DefaultHost}, port : {DefaultPort}, hash : Hashes]
  /\ endpoint \in Endpoints
  /\ clock = 0
  /\ timerFired = FALSE
  /\ cancelledAt = "none"
  /\ pc = "start"
  /\ uri = ""
  /\ conn = "none"
  /\ closeReason = ""
  /\ arr = NoArr
  /\ msg = NoHeader
  /\ inflight = NoMsg
  /\ sent = <<>>
  /\ exc = "None"
  /\ events = <<>>
  /\ outcome = "running"
  /\ failure = "None"

(***************************************************************************)
(* asyncio.wait_for / asyncio.run                                          *)
(***************************************************************************)
\* Variant: the cancellation is not translated into TimeoutError.
WaitForFailureRaw(e) == e

\* What wait_for raises when the task ends with exception e: a task that
\* ends cancelled after the timer fired gives TimeoutError.
WaitForFailure(e) == IF e = "CancelledError" THEN "TimeoutError" ELSE e

\* The task ends with exception e ("None": it returned).
Finish(e) ==
  /\ pc' = "done"
  /\ exc' = e
  /\ outcome' = IF e = "None" THEN "completed" ELSE "raised"
  /\ failure' = WaitForFailure(e)

\* The state of the connection once close() has been called on it.
Closing(c) == IF c = "closed" THEN "closed" ELSE "closing"

\* An exception e leaves the body of the async with: __aexit__ awaits close().
Unwind(e) ==
  /\ pc' = "aexit"
  /\ exc' = e
  /\ conn' = Closing(conn)
  /\ inflight' = NoMsg
  /\ UNCHANGED <<outcome, failure>>

\* Time passes while the run is in progress.
Tick ==
  /\ outcome = "running"
  /\ clock < TIMEOUT
  /\ clock' = clock + 1
  /\ UNCHANGED <<args, endpoint, timerFired, cancelledAt, pc, uri, conn, closeReason,
                 arr, msg, inflight, sent, exc, events, outcome, failure>>

\* The timer of wait_for fires while the task is suspended: the task is
\* cancelled, CancelledError is raised at the await it is suspended in.
TimeoutFire ==
  /\ outcome = "running"
  /\ clock = TIMEOUT
  /\ ~timerFired
  /\ pc \in Suspended
  /\ timerFired' = TRUE
  /\ cancelledAt' = pc
  /\ IF pc = "connecting"
       THEN \* not inside the async with body yet: no __aexit__
            /\ Finish("CancelledError")
            /\ UNCHANGED <<conn, inflight>>
       ELSE IF pc = "aexit"
       THEN \* CancelledError leaves __aexit__ with the close under way; the
            \* transport is taken to be closed by the library's close task
            \* and the teardown of asyncio.run before the run ends
            /\ Finish("CancelledError")
            /\ conn' = "closed"
            /\ UNCHANGED inflight
       ELSE Unwind("CancelledError")
  /\ UNCHANGED <<args, endpoint, clock, uri, closeReason, arr, msg, sent, events>>

(***************************************************************************)
(* hello()                                                                 *)
(***************************************************************************)
\* lines 13-14: build the uri, enter websockets.connect(uri)
Start ==
  /\ pc = "start"
  /\ uri' = Uri(args.host, args.port)
  /\ events' = Append(events, "connect")
  /\ pc' = "connecting"
  /\ UNCHANGED <<args, endpoint, clock, timerFired, cancelledAt, conn, closeReason,
                 arr, msg, inflight, sent, exc, outcome, failure>>

\* line 14: the opening handshake succeeds
ConnectOk ==
  /\ pc = "connecting"
  /\ endpoint \in {"accepting", "flaky"}
  /\ conn' = "open"
  /\ events' = Append(events, "opened")
  /\ pc' = "generate"
  /\ UNCHANGED <<args, endpoint, clock, timerFired, cancelledAt, uri, closeReason,
                 arr, msg, inflight, sent, exc, outcome, failure>>

\* Variant: a refused connect is swallowed and the connect attempted again.
ConnectFailRetry ==
  /\ pc = "connecting"
  /\ endpoint = "refusing"
  /\ exc' = "OSError"
  /\ pc' = "start"
  /\ UNCHANGED <<args, endpoint, clock, timerFired, cancelledAt, uri, conn, closeReason,
                 arr, msg, inflight, sent, events, outcome, failure>>

\* line 14: the connect raises (connection refused)
ConnectFail ==
  /\ pc = "connecting"
  /\ endpoint = "refusing"
  /\ Finish("OSError")
  /\ UNCHANGED <<args, endpoint, clock, timerFired, cancelledAt, uri, conn, closeReason,
                 arr, msg, inflight, sent, events>>

\* line 16
Generate ==
  /\ pc = "generate"
  /\ arr' \in NewArrays
  /\ pc' = "dumps"
  /\ UNCHANGED <<args, endpoint, clock, timerFired, cancelledAt, uri, conn, closeReason,
                 msg, inflight, sent, exc, events, outcome, failure>>

\* lines 19-20: build the header, call websocket.send(msg)
SendHeader ==
  /\ pc = "dumps"
  /\ msg' = JsonDumps(ArrShape(arr), ArrDtypeName(arr), args.hash)
  /\ inflight' = TextMsg(msg')
  /\ pc' = "send_header"
  /\ UNCHANGED <<args, endpoint, clock, timerFired, cancelledAt, uri, conn, closeReason,
                 arr, sent, exc, events, outcome, failure>>

\* line 20: the send of the header completes
SendHeaderOk ==
  /\ pc = "send_header"
  /\ sent' = Append(sent, inflight)
  /\ inflight' = NoMsg
  /\ events' = Append(events, "send_header")
  /\ pc' = "encode"
  /\ UNCHANGED <<args, endpoint, clock, timerFired, cancelledAt, uri, conn, closeReason,
                 arr, msg, exc, outcome, failure>>

\* line 23: build the payload, call websocket.send(...); hash.encode raises
\* UnicodeEncodeError on a surrogate
SendPayload ==
  /\ pc = "encode"
  /\ IF Encodable(args.hash)
       THEN /\ inflight' = PayloadMsg(args.hash, arr)
            /\ pc' = "send_payload"
            /\ UNCHANGED <<conn, exc, outcome, failure>>
       ELSE Unwind("UnicodeEncodeError")
  /\ UNCHANGED <<args, endpoint, clock, timerFired, cancelledAt, uri, closeReason,
                 arr, msg, sent, events>>

\* lines 23, 33: the send of the payload completes; call
\* websocket.close(reason="Goodbye!")
SendPayloadOk ==
  /\ pc = "send_payload"
  /\ sent' = Append(sent, inflight)
  /\ inflight' = NoMsg
  /\ conn' = Closing(conn)
  /\ closeReason' = CloseReason
  /\ events' = Append(events, "send_payload") \o <<"close">>
  /\ pc' = "close"
  /\ UNCHANGED <<args, endpoint, clock, timerFired, cancelledAt, uri,
                 arr, msg, exc, outcome, failure>>

\* Variant: after a failed send the header is built and sent again.
SendFailRetry ==
  /\ pc \in {"send_header", "send_payload"}
  /\ endpoint = "flaky"
  /\ pc' = "dumps"
  /\ inflight' = NoMsg
  /\ UNCHANGED <<args, endpoint, clock, timerFired, cancelledAt, uri, conn, closeReason,
                 arr, msg, sent, exc, events, outcome, failure>>

\* lines 20, 23: a send raises ConnectionClosed (the peer dropped the
\* connection)
SendFail ==
  /\ pc \in {"send_header", "send_payload"}
  /\ endpoint = "flaky"
  /\ pc' = "aexit"
  /\ exc' = "ConnectionClosed"
  /\ conn' = "closed"
  /\ inflight' = NoMsg
  /\ UNCHANGED <<args, endpoint, clock, timerFired, cancelledAt, uri, closeReason,
                 arr, msg, sent, events, outcome, failure>>

\* line 33: the explicit close completes; the body of the async with ends
\* and __aexit__ awaits close() again
CloseDone ==
  /\ pc = "close"
  /\ conn' = "closed"
  /\ pc' = "aexit"
  /\ UNCHANGED <<args, endpoint, clock, timerFired, cancelledAt, uri, closeReason,
                 arr, msg, inflight, sent, exc, events, outcome, failure>>

\* Variant: leaving the scope does not close the connection.
AexitConnKeep(c) == c

\* The state of the connection when __aexit__ returns.
AexitConn(c) == "closed"

\* line 14: __aexit__ returns; the pending exception, if any, propagates out
\* of hello()
AexitDone ==
  /\ pc = "aexit"
  /\ conn' = AexitConn(conn)
  /\ Finish(exc)
  /\ UNCHANGED <<args, endpoint, clock, timerFired, cancelledAt, uri, closeReason,
                 arr, msg, inflight, sent, events>>

Next ==
  \/ Tick
  \/ TimeoutFire
  \/ Start
  \/ ConnectOk
  \/ ConnectFail
  \/ Generate
  \/ SendHeader
  \/ SendHeaderOk
  \/ SendPayload
  \/ SendPayloadOk
  \/ SendFail
  \/ CloseDone
  \/ AexitDone

Spec == Init /\ [][Next]_vars

\* The event loop runs a ready task and a due timer, time passes, close()
\* returns within its close_timeout, a refused connect is reported, and an
\* accepting endpoint completes the connect and the sends.
FairSpec ==
  /\ Spec
  /\ WF_vars(Tick)
  /\ WF_vars(TimeoutFire)
  /\ WF_vars(Start)
  /\ WF_vars(Generate)
  /\ WF_vars(SendHeader)
  /\ WF_vars(SendPayload)
  /\ WF_vars(CloseDone)
  /\ WF_vars(AexitDone)
  /\ WF_vars(ConnectFail)
  /\ WF_vars(endpoint = "accepting" /\ (ConnectOk \/ SendHeaderOk \/ SendPayloadOk))

(***************************************************************************)
(* Properties                                                              *)
(***************************************************************************)
Canon == <<"connect", "opened", "send_header", "send_payload", "close">>
IsPrefix(s, t) == Len(s) <= Len(t) /\ SubSeq(t, 1, Len(s)) = s
Count(ev) == Cardinality({i \in 1..Len(events) : events[i] = ev})
Done == pc = "done"
Opened == Count("opened") >= 1
ArrayBytes == 25 * 1 * 512 * 512 * 1 * 2
BinarySent == {i \in 1..Len(sent) : sent[i].type = "binary"}
TextSent == {i \in 1..Len(sent) : sent[i].type = "text"}

\* Number of bytes of the UTF-8 form of a code point, by its range.
ByteLen(cp) == IF cp < 128 THEN 1 ELSE IF cp < 2048 THEN 2 ELSE IF cp < 65536 THEN 3 ELSE 4
RECURSIVE ByteLenSum(_)
ByteLenSum(s) == IF s = <<>> THEN 0 ELSE ByteLen(Head(s)) + ByteLenSum(Tail(s))
IsAscii(s) == \A i \in 1..Len(s) : s[i] < 128

\* What a receiver reads back from the JSON text of a str (json.loads).
HexVal(c) == IF c <= 57 THEN c - 48 ELSE IF c >= 97 THEN c - 87 ELSE c - 55
Hex4(t, i) ==
  HexVal(t[i]) * 4096 + HexVal(t[i + 1]) * 256 + HexVal(t[i + 2]) * 16 + HexVal(t[i + 3])

IsUEscapeAt(t, i) == i + 5 <= Len(t) /\ t[i] = 92 /\ t[i + 1] = 117

SimpleUnescape(c) ==
  IF c = 110 THEN 10
  ELSE IF c = 114 THEN 13
  ELSE IF c = 116 THEN 9
  ELSE IF c = 98 THEN 8
  ELSE IF c = 102 THEN 12
  ELSE c

\* json.loads of a JSON string: scan from position i to the closing quote.
RECURSIVE JsonUnescapeFrom(_, _)
JsonUnescapeFrom(t, i) ==
  IF i > Len(t) \/ t[i] = 34 THEN <<>>
  ELSE IF t[i] # 92 THEN <<t[i]>> \o JsonUnescapeFrom(t, i + 1)
  ELSE IF t[i + 1] # 117 THEN <<SimpleUnescape(t[i + 1])>> \o JsonUnescapeFrom(t, i + 2)
  ELSE LET u == Hex4(t, i + 2)
       IN IF u >= 55296 /\ u <= 56319 /\ IsUEscapeAt(t, i + 6)
             /\ Hex4(t, i + 8) >= 56320 /\ Hex4(t, i + 8) <= 57343
          THEN <<65536 + (u - 55296) * 1024 + (Hex4(t, i + 8) - 56320)>>
                 \o JsonUnescapeFrom(t, i + 12)
          ELSE <<u>> \o JsonUnescapeFrom(t, i + 6)

\* json.loads of the JSON text of a str: what follows the opening quote.
JsonLoadsStr(t) == JsonUnescapeFrom(t, 2)

\* The events are in the order connect, header, payload, close, each at most
\* once; the messages sent are those events' messages; the run is running or
\* in one of the two terminal states.
EventOrder ==
  /\ IsPrefix(events, Canon)
  /\ Len(sent) = Count("send_header") + Count("send_payload")
  /\ (Len(sent) >= 1 => sent[1].type = "text")
  /\ (Len(sent) >= 2 => sent[2].type = "binary")
  /\ (inflight # NoMsg => conn = "open")
  /\ (closeReason = CloseReason <=> Count("close") = 1)
  /\ outcome \in {"running", "completed", "raised"}
  /\ (Done <=> outcome \in {"completed", "raised"})

\* C1 as stated: the events occur only in the order connect, send header,
\* send payload, close, the connection is opened exactly once in every run,
\* and the run ends completed or raised.
C1_Original == EventOrder /\ (Done => Count("opened") = 1)

\* C1, amended: the events occur only in that order and the run ends
\* completed or raised; the connect is attempted exactly once and the
\* connection is opened at most once: once when the connect succeeds, never
\* when it fails or is cancelled by the timeout.
C1_Order ==
  /\ EventOrder
  /\ Count("opened") <= 1
  /\ (pc # "start" => Count("connect") = 1)
  /\ (Count("opened") = 1 <=> conn # "none")
  /\ (Done /\ exc \in {"None", "ConnectionClosed", "UnicodeEncodeError"}
        => Count("opened") = 1)
  /\ (Done /\ (exc = "OSError" \/ cancelledAt = "connecting") => Count("opened") = 0)

C1_Witness == Done /\ events = Canon /\ outcome = "completed"

C3_TimeoutAborts ==
  /\ [](timerFired => clock = TIMEOUT /\ cancelledAt # "none" /\ inflight = NoMsg)
  /\ [][timerFired' => sent' = sent /\ events' = events]_vars
  /\ [](timerFired /\ Done => outcome = "raised" /\ failure = "TimeoutError")
  /\ (timerFired ~> (Done /\ failure = "TimeoutError"))
  /\ ((endpoint = "silent") ~> (Done /\ failure = "TimeoutError" /\ sent = <<>>))

C3_Witness ==
  /\ Done
  /\ endpoint = "silent"
  /\ failure = "TimeoutError"
  /\ cancelledAt = "connecting"

\* C4: once an exception propagates, no message is sent and no connect is
\* attempted, and the run ends raised with an exception; a failed connect
\* leaves no message sent, a failed header send leaves the payload unsent.
C4_FailurePropagates ==
  /\ [][exc # "None" \/ exc' # "None"
          => sent' = sent /\ events' = events /\ inflight' = NoMsg /\ exc' # "None"]_vars
  /\ [](Done /\ exc # "None" => outcome = "raised" /\ failure # "None")
  /\ [](outcome = "raised" => exc # "None")
  /\ [](Done /\ ~Opened => sent = <<>>)
  /\ [](exc # "None" /\ Count("send_header") = 0 => sent = <<>>)
  /\ ((exc # "None") ~> (outcome = "raised"))

C4_Witness ==
  /\ Done
  /\ failure = "ConnectionClosed"
  /\ sent = <<>>
  /\ Opened

\* C5 as stated, for a run with the default hash whose connection was
\* accepted: against an accepting endpoint every run ends completed, with
\* two messages sent and the connection closed with "Goodbye!".
C5_Original ==
  endpoint = "accepting" /\ args.hash = DefaultHash /\ Opened /\ Done
    => /\ outcome = "completed"
       /\ Len(sent) = 2
       /\ conn = "closed"
       /\ closeReason = "Goodbye!"

\* C5, amended: against an accepting endpoint, with a hash that UTF-8 can
\* encode, the run ends completed (two messages sent, one connection opened
\* and closed with "Goodbye!", nothing raised) unless the 5-second timeout
\* fires first.
C5_Completes ==
  /\ [](endpoint = "accepting" /\ Encodable(args.hash) /\ Done /\ ~timerFired
          => /\ outcome = "completed"
             /\ failure = "None"
             /\ Len(sent) = 2
             /\ Count("opened") = 1
             /\ conn = "closed"
             /\ closeReason = "Goodbye!")
  /\ ((endpoint = "accepting" /\ Encodable(args.hash))
        ~> (outcome = "completed" \/ timerFired))

C5_Witness ==
  /\ Done
  /\ endpoint = "accepting"
  /\ outcome = "completed"
  /\ args = [host |-> "localhost", port |-> 8765, hash |-> DefaultHash]

\* C6 as stated: the byte length of message 2 is len(hash) + 13107200.
C6_Original ==
  /\ \A i \in BinarySent : sent[i].len = Len(args.hash) + ArrayBytes
  /\ (inflight.type = "binary" => inflight.len = Len(args.hash) + ArrayBytes)

\* C6, amended: the byte length of message 2 is the number of bytes of the
\* UTF-8 encoding of the hash plus 13107200; that is len(hash) + 13107200
\* when the hash is ASCII.
C6_PayloadLength ==
  \A m \in {sent[i] : i \in BinarySent} \cup ({inflight} \ {NoMsg}) :
    m.type = "binary"
      => /\ m.len = ByteLenSum(args.hash) + ArrayBytes
         /\ (IsAscii(args.hash) => m.len = Len(args.hash) + ArrayBytes)
         /\ Len(m.head) = ByteLenSum(args.hash) + 2 * NSample

C6_Witness == BinarySent # {} /\ ~IsAscii(args.hash) /\ Len(args.hash) = MaxHashLen

\* C7: a header that is sent declares shape (25,1,512,512,1) and dtype
\* uint16; these are the shape and dtype of the array whose bytes follow, and
\* the array is not modified from the building of the header to the sending
\* of the payload.
C7_HeaderDescribesArray ==
  /\ [](\A m \in {sent[i] : i \in TextSent} \cup {inflight} :
          m.type = "text"
            => /\ m.json.shape = <<25, 1, 512, 512, 1>>
               /\ m.json.dtype = "uint16"
               /\ m.json.shape = arr.shape
               /\ m.json.dtype = arr.dtype)
  /\ [](\A i \in BinarySent :
          /\ TextSent = {1}
          /\ sent[i].len - ByteLenSum(args.hash)
               = Product(sent[1].json.shape) * ItemSize(sent[1].json.dtype)
          /\ SubSeq(sent[i].head, ByteLenSum(args.hash) + 1, Len(sent[i].head))
               = ElemBytes(arr.elems))
  /\ [][pc \notin {"start", "connecting", "generate"} => arr' = arr]_vars

C7_Witness == Len(sent) = 2 /\ arr.elems[1] = 2047

\* C8: every element of the array is in [0, 2048) and below 2^16.
C8_ElementsInRange ==
  \A i \in DOMAIN arr.elems :
    /\ arr.elems[i] >= 0
    /\ arr.elems[i] < 2048
    /\ arr.elems[i] < 65536

C8_Witness == arr # NoArr /\ arr.elems[NSample] = 2047

\* C9 as stated, in its clause on the close: the timeout cancels the task
\* only in the connect or in one of the two sends, never during the close
\* of the connection (line 33).
C9_Original == cancelledAt # "close"

\* C9, amended: the task is suspended, and the timeout can cancel it, only
\* in the connect, the two sends, the explicit close and the close awaited
\* on leaving the connection scope; never at another step.
C9_SuspensionPoints ==
  /\ cancelledAt \in {"none", "connecting", "send_header", "send_payload", "close", "aexit"}
  /\ (timerFired <=> cancelledAt # "none")
  /\ (cancelledAt # "none" => clock = TIMEOUT)

C9_Witness == cancelledAt = "close" /\ Done

\* C10: when both messages are sent, the header's "hash" field decodes to
\* the caller's hash, the UTF-8 bytes of that value are the leading bytes of
\* message 2, and the hash never changes.
C10_HashMatches ==
  /\ [](Len(sent) = 2
          => /\ JsonLoadsStr(sent[1].json.hash) = args.hash
             /\ IsPrefix(StrEncode(JsonLoadsStr(sent[1].json.hash)), sent[2].head)
             /\ Len(StrEncode(args.hash)) = ByteLenSum(args.hash))
  /\ [][args' = args]_vars

C10_Witness ==
  /\ Len(sent) = 2
  /\ \E i \in 1..Len(args.hash) : args.hash[i] = 128512
  /\ \E i \in 1..Len(args.hash) : args.hash[i] = 34

====
